---- MODULE Spec2Model ----
(***************************************************************************)
(* Queue transports of the observability demo: RedisTransport (local),     *)
(* SQSTransport (managed) and the notification service's own processQueue  *)
(* loop over the same Redis list.  One producer, one consume loop and one  *)
(* backend per behaviour; the implementation is fixed in the initial state *)
(* (createQueueTransport picks it once at process start).                  *)
(*                                                                         *)
(* A step of the consumer is the synchronous stretch of code between two   *)
(* awaits: the completion of the awaited call, the code that runs on its   *)
(* result, and the issue of the next awaited call.                         *)
(*                                                                         *)
(* Further views share the module: the order service's start-up            *)
(* (createQueueTransport, app.listen, POST /orders) under StartSpec, the   *)
(* message validator applied to bounded inputs under ValidatorSpec, one    *)
(* envelope followed from injectTraceContext to the handler under          *)
(* CodecSpec, a second consume() call on the handle under ReentrySpec,     *)
(* several callers publishing on one handle under ProducersSpec, and the   *)
(* end of the notification service's process under ShutdownSpec.           *)
(***************************************************************************)
EXTENDS Integers, Sequences, FiniteSets, TLC

\* ---- bounds ----
MaxMsgs == 3        \* envelopes the producer publishes (ids 1..MaxMsgs)
MaxSqsMsgs == 1     \* of which this many when the backend is the managed queue
MaxReceive == 2     \* times the managed backend hands out one message

\* ---- program constants ----
MaxNumberOfMessages == 10   \* ReceiveMessageCommand batch limit
FirstOrderId == 3           \* let nextOrderId = 3

Ids == 1..MaxMsgs
RawSlot == 0                \* backend slot of a body that was not published
Slots == {RawSlot} \cup Ids
Receipts == Slots \X (1..(MaxReceive + 1))

\* ---- JavaScript values ----
\* A value is <<tag, payload>>.  "nan" stands for the numbers JSON cannot
\* write (NaN, Infinity); an object's payload is its fields, a field the
\* object does not have being Undefined.
Undefined == <<"undefined", 0>>
Null == <<"null", 0>>
NaN == <<"nan", 0>>
Str(s) == <<"string", s>>
Num(n) == <<"number", n>>
Obj(fields) == <<"object", fields>>
EmptyArray == <<"array", 0>>
\* typeof v
TypeOf(v) ==
  IF v[1] \in {"number", "nan"} THEN "number"
  ELSE IF v[1] \in {"object", "null", "array"} THEN "object"
  ELSE v[1]

\* ---- trace context (@opentelemetry/api, W3C trace context propagator) ----
\* A context is ROOT_CONTEXT or carries a span context.  The identifiers are
\* hex texts; the all-zero ones are the invalid identifiers.
TraceIdList == <<"aabbccddeeff00112233445566778899", "0af7651916cd43dd8448eb211c80319c">>
TraceIds == {TraceIdList[i] : i \in 1..Len(TraceIdList)}
SpanIds == {"0011223344556677", "b7ad6b7169203331"}
TraceFlags == {"00", "01"}
INVALID_TRACEID == "00000000000000000000000000000000"
ROOT_CONTEXT == <<"root", 0>>
SpanContext(t, s, f, remote) ==
  <<"span", [traceId |-> t, spanId |-> s, traceFlags |-> f, isRemote |-> remote]>>
Contexts ==
  {ROOT_CONTEXT} \cup
  {SpanContext(t, s, f, r) : t \in TraceIds \cup {INVALID_TRACEID}, s \in SpanIds,
                             f \in TraceFlags, r \in BOOLEAN}
isSpanContextValid(ctx) == ctx[1] = "span" /\ ctx[2].traceId # INVALID_TRACEID
\* trace.getSpanContext(ctx)?.traceId of a context that carries a valid span
\* context; "none" for the others.
TraceIdOf(ctx) == IF isSpanContextValid(ctx) THEN ctx[2].traceId ELSE "none"
\* The traceparent header text: version-traceid-spanid-flags.
traceParent(t, s, f) == "00-" \o t \o "-" \o s \o "-" \o f
\* parseTraceParent: the text matches the version 00 pattern (a trace id
\* that is not all zeros, a span id, flags) or the result is null.
NoSpanContext == <<"null", 0>>
parseTraceParent(text) ==
  IF \E t \in TraceIds, s \in SpanIds, f \in TraceFlags : text = traceParent(t, s, f)
  THEN LET sc == CHOOSE sc \in [traceId : TraceIds, spanId : SpanIds, traceFlags : TraceFlags] :
                   text = traceParent(sc.traceId, sc.spanId, sc.traceFlags)
       IN SpanContext(sc.traceId, sc.spanId, sc.traceFlags, TRUE)
  ELSE NoSpanContext
\* A carrier object with a traceparent key, the carrier {} and a carrier
\* whose only key no configured propagator reads.
Traceparent == "00-aabbccddeeff00112233445566778899-0011223344556677-01"
Carrier(v) == Obj([traceparent |-> v])
EmptyCarrier == Obj([k \in {} |-> Undefined])
ForeignCarrier == Obj([b3 |-> Str("80f198ee56343ba864fe8b2a57d3eff7-e457b5a2e4d86bd1-1")])
\* propagation.inject(ctx, carrier) on carrier = {}: the carrier afterwards.
\* Nothing is written for a context without a valid span context.
\* (Faulty variant: injectFixed writes the same header whatever the context.)
injectFixed(ctx) == Carrier(Str(Traceparent))
inject(ctx) ==
  IF isSpanContextValid(ctx)
  THEN Carrier(Str(traceParent(ctx[2].traceId, ctx[2].spanId, ctx[2].traceFlags)))
  ELSE EmptyCarrier
\* propagation.extract(ctx, carrier): ctx itself unless the carrier has a
\* traceparent string that parses; the restored span context is remote.
\* (Faulty variant: extractStrict throws on a carrier it cannot read.)
ExtractError == <<"throw", 1>>
extractStrict(ctx, carrier) ==
  IF carrier[1] # "object" THEN ExtractError
  ELSE IF "traceparent" \notin DOMAIN carrier[2] THEN ExtractError
  ELSE IF carrier[2].traceparent[1] # "string" THEN ExtractError
  ELSE IF parseTraceParent(carrier[2].traceparent[2]) = NoSpanContext THEN ExtractError
  ELSE parseTraceParent(carrier[2].traceparent[2])
extract(ctx, carrier) ==
  IF carrier[1] # "object" THEN ctx
  ELSE IF "traceparent" \notin DOMAIN carrier[2] THEN ctx
  ELSE IF carrier[2].traceparent[1] # "string" THEN ctx
  ELSE IF parseTraceParent(carrier[2].traceparent[2]) = NoSpanContext THEN ctx
  ELSE parseTraceParent(carrier[2].traceparent[2])

\* The QueueMessage of the m-th order created, as the order service builds
\* it, before and after injectTraceContext.
QueueMessage(m, ctx) ==
  Obj([type |-> Str("order_created"), orderId |-> Num(FirstOrderId + m - 1),
       userId |-> Num(7),
       userName |-> Str("Alice"), total |-> Num(100),
       timestamp |-> Str("2026-02-21T10:00:00.000Z"),
       traceContext |-> ctx, unknownField |-> Undefined])
\* injectTraceContext(message) under context.active() = ctx: the object the
\* caller passed, as it is after the call, and the object returned.
\* (Faulty variant: injectTraceContextInPlace writes the carrier into the
\* object it was given and returns that object.)
injectTraceContextInPlace(message, ctx) ==
  [argument |-> Obj([message[2] EXCEPT !.traceContext = inject(ctx)]),
   result |-> Obj([message[2] EXCEPT !.traceContext = inject(ctx)])]
injectTraceContextCall(message, ctx) ==
  [argument |-> message,
   result |-> Obj([message[2] EXCEPT !.traceContext = inject(ctx)])]
injectTraceContext(message, ctx) == injectTraceContextCall(message, ctx).result
\* context.active() in the POST /orders handler of the m-th order: the
\* context of the request's HTTP server span.
ActiveContext(m) ==
  SpanContext(TraceIdList[(m % Len(TraceIdList)) + 1], "0011223344556677", "01", FALSE)
Message(m) == injectTraceContext(QueueMessage(m, Undefined), ActiveContext(m))

\* A value with the field types QueueMessage declares.
WellTyped(v) ==
  /\ v[1] = "object"
  /\ TypeOf(v[2].type) = "string"
  /\ TypeOf(v[2].orderId) = "number"
  /\ TypeOf(v[2].userId) = "number"
  /\ TypeOf(v[2].userName) = "string"
  /\ TypeOf(v[2].total) = "number"
  /\ TypeOf(v[2].timestamp) = "string"
  /\ \/ v[2].traceContext = Undefined
     \/ /\ v[2].traceContext[1] = "object"
        /\ \A k \in DOMAIN v[2].traceContext[2] :
             TypeOf(v[2].traceContext[2][k]) = "string"
\* No field of the object is a number JSON cannot write.
Finite(v) == \A k \in DOMAIN v[2] : v[2][k] # NaN

\* ---- wire format ----
\* JSON.stringify(v): a field that is undefined is left out, a number JSON
\* cannot write becomes null, one level down as well.
\* (Faulty variants: JSONstringifyBare leaves out the optional fields,
\* ToJSONFieldShallow empties a nested object.)
ToJSON(v) == IF v[1] = "nan" THEN Null ELSE v
ToJSONFieldShallow(v) == IF v[1] = "object" THEN EmptyCarrier ELSE ToJSON(v)
ToJSONField(v) ==
  IF v[1] = "object" THEN Obj([k \in DOMAIN v[2] |-> ToJSON(v[2][k])]) ELSE ToJSON(v)
JSONstringifyBare(v) ==
  <<"json", IF v[1] = "object"
            THEN Obj([k \in DOMAIN v[2] |->
                       IF k \in {"traceContext", "unknownField"} THEN Undefined
                       ELSE ToJSONField(v[2][k])])
            ELSE ToJSON(v)>>
JSONstringify(v) ==
  <<"json", IF v[1] = "object"
            THEN Obj([k \in DOMAIN v[2] |-> ToJSONField(v[2][k])])
            ELSE ToJSON(v)>>
\* Texts that are not JSON: 'not-json', '{incomplete' and ''.
NotJson == <<"not-json", 0>>
Incomplete == <<"not-json", 1>>
EmptyText == <<"not-json", 2>>
\* The JSON text '42'.
ScalarJson == <<"json", Num(42)>>
\* No text (nothing was placed in the backend / nothing was serialized yet).
NoText == <<"none", 0>>
\* JSON.parse: the value a JSON text denotes, a throw for other text.
\* (Faulty variant: JSONparseLenient reads text that is not JSON as a
\* default message.)
SyntaxError == <<"throw", 0>>
JSONparseLenient(body) == <<"value", IF body[1] = "json" THEN body[2] ELSE Message(1)>>
JSONparse(body) == IF body[1] = "json" THEN <<"value", body[2]>> ELSE SyntaxError

\* ---- message validator ----
\* The declared types of the fields of QueueMessage, and of the values of
\* traceContext (Record<string, string>).
\* (Faulty variants: FieldTypeText declares the numeric fields as strings,
\* CarrierValueTypeAny lets a carrier hold numbers.)
FieldTypeText ==
  [type |-> "string", orderId |-> "string", userId |-> "string", userName |-> "string",
   total |-> "string", timestamp |-> "string"]
FieldType ==
  [type |-> "string", orderId |-> "number", userId |-> "number", userName |-> "string",
   total |-> "number", timestamp |-> "string"]
CarrierValueTypeAny == {"string", "number"}
CarrierValueType == {"string"}
\* The fields the validator requires.
Required == {"type", "orderId", "userId", "total"}
\* A carrier is absent, or a flat mapping from strings to strings.
CarrierOK(c) ==
  \/ c = Undefined
  \/ c[1] = "object" /\ \A k \in DOMAIN c[2] : TypeOf(c[2][k]) \in CarrierValueType
\* safeParseMessage(raw): parse; reject what is not a single object; reject
\* a required field that is missing or of the wrong type; reject a carrier
\* that is not a flat string mapping; return the parsed object otherwise.
safeParseMessage(text) ==
  LET p == JSONparse(text)
  IN IF p[1] = "throw" THEN Null
     ELSE IF p[2][1] # "object" THEN Null
     ELSE IF \E f \in Required : TypeOf(p[2][2][f]) # FieldType[f] THEN Null
     ELSE IF ~CarrierOK(p[2][2].traceContext) THEN Null
     ELSE p[2]

\* ---- Redis list commands (QUEUE_NAME = 'notifications') ----
\* LPUSH adds at the head; BRPOP returns the tail element and removes it.
\* (Faulty variants: lPushTwice stores the body twice, rPush pushes at the
\* tail, lIndexRest reads the tail without removing it.)
lPushTwice(l, body) == <<body, body>> \o l
rPush(l, body) == l \o <<body>>
lPush(l, body) == <<body>> \o l
brPopElement(l) == l[Len(l)]
lIndexRest(l) == l
brPopRest(l) == SubSeq(l, 1, Len(l) - 1)

\* ---- decisions of the code ----
\* while (this.running) / while (isProcessing)
\* (Faulty variant: WhileTrue never tests the flag.)
WhileTrue(r) == TRUE
WhileRunning(r) == r

\* publish: `await client.send(...)' / `await client.lPush(...)' inside an
\* async function returning Promise<void>: the promise resolves when the send
\* resolved and rejects with the send's error otherwise.
\* (Faulty variants: one swallows the error, one returns it as a value.)
PublishOutcomeSwallow(sendOk) == "resolved"
PublishOutcomeValue(sendOk) == IF sendOk THEN "resolved" ELSE "failure_value"
PublishOutcome(sendOk) == IF sendOk THEN "resolved" ELSE "rejected"

VARIABLES
  impl,        \* "redis" | "sqs" | "notif": which consumer runs
  running,     \* this.running / isProcessing
  clientOpen,  \* the client is connected (Redis isOpen; SQS not destroyed)
  list,        \* Redis list 'notifications', head first
  sqs,         \* SQS queue: slot -> "none" | "visible" | "inflight" | "deleted"
  rcv,         \* slot -> number of times the backend handed the body out
  pc,          \* position of consume(): idle, recv, handler, delete, backoff, done;
               \* exited when the process ended under it
  cmdValid,    \* the in-flight receive was issued on an open client
  cur,         \* receipt <<slot, n>> of the message being handled, or <<>>
  batch,       \* SQS: receipts of response.Messages not yet iterated
  \* ---- history ----
  pubSend,     \* id -> "none" | "ok" | "err": outcome of the backend send
  pubResult,   \* id -> "none" | "resolved" | "rejected" | "failure_value"
  published,   \* ids in the order their publish calls resolved
  invoked,     \* receipts for which the handler was invoked
  delivered,   \* Redis list: published ids in the order the handler was invoked
  succeeded,   \* receipts whose handler invocation resolved
  failed,      \* receipts whose handler invocation rejected
  parseFailed, \* receipts whose body JSON.parse rejected
  deletes,     \* receipts for which a DeleteMessageCommand was sent
  acked,       \* receipts whose DeleteMessageCommand succeeded
  closeCount,  \* close() calls so far: 0, 1, or 2 for two and more
  closeResult, \* outcome of the last close(): "none" | "resolved" | "rejected"
  closedAt,    \* pc when close() was first called while consume was in flight
  \* ---- a text placed in the backend directly / handed to the validator ----
  raw,         \* the text, or NoText
  \* ---- message validator ----
  sent,        \* the value handed to JSON.stringify, or Undefined
  decoded,     \* <<"result", what safeParseMessage returned>>, or Undefined
  \* ---- trace context codec ----
  active,      \* context.active() where injectTraceContext is called
  arg,         \* the object the caller passes to injectTraceContext / publish
  handed,      \* the object handed to the handler, or Undefined
  restored,    \* the context the handler ran under, or Undefined
  \* ---- further callers on the handle ----
  other,       \* pc, cmdValid, cur and batch of the other consume() call
  producers,   \* number of callers publishing on the handle
  \* ---- notification service shutdown ----
  shutdown,    \* its SIGTERM handler: "none" | "failed" (it rejected before
               \* sdk.shutdown()) | "sdk" (sdk.shutdown() called) | "exited"
  \* ---- order service start-up ----
  envTransport, \* process.env.QUEUE_TRANSPORT
  envUrl,      \* process.env.SQS_QUEUE_URL
  boot,        \* createQueueTransport(): "init" | "connecting" | "resolved" | "rejected"
  constructed, \* transport classes whose constructor was called, in order
  queue,       \* the order service's `queue': "undefined" | "redis" | "sqs"
  listening,   \* app.listen was called
  posts        \* outcome of each POST /orders request, in order

vars == <<impl, running, clientOpen, list, sqs, rcv, pc, cmdValid, cur, batch,
          pubSend, pubResult, published, invoked, delivered, succeeded, failed,
          parseFailed, deletes, acked, closeCount, closeResult, closedAt,
          raw, sent, decoded, envTransport, envUrl, boot, constructed, queue,
          listening, posts, active, arg, handed, restored, other, producers,
          shutdown>>

\* The variables of the validator and of the start-up, which the transports
\* do not touch.
validatorVars == <<sent, decoded>>
startVars == <<envTransport, envUrl, boot, constructed, queue, listening, posts>>
codecVars == <<active, arg, handed, restored>>
callerVars == <<other, producers>>

hist == <<pubSend, pubResult, published, invoked, delivered, succeeded, failed,
          parseFailed, deletes, acked, closeCount, closeResult, closedAt>>

Impls == {"redis", "sqs", "notif"}
Local == {"redis", "notif"}

\* An unset environment variable.
Unset == "<unset>"

\* The validator is not in use.
ValidatorIdle == sent = Undefined /\ decoded = Undefined

\* No envelope is followed through the codec.
CodecIdle ==
  /\ active = ROOT_CONTEXT
  /\ arg = Undefined
  /\ handed = Undefined
  /\ restored = Undefined

\* The start-up is over: the handle exists.
Started ==
  /\ envTransport = IF impl = "sqs" THEN "sqs" ELSE "redis"
  /\ envUrl = IF impl = "sqs" THEN "https://sqs/queue" ELSE Unset
  /\ boot = "resolved"
  /\ constructed = <<IF impl = "sqs" THEN "SQSTransport" ELSE "RedisTransport">>
  /\ queue = IF impl = "sqs" THEN "sqs" ELSE "redis"
  /\ listening = TRUE
  /\ posts = <<>>

\* A consume() call that was not made.
NotCalled == [pc |-> "idle", cmdValid |-> TRUE, cur |-> <<>>, batch |-> {}]

\* One caller publishes on the handle and at most one calls consume.
SingleCaller == other = NotCalled /\ producers = 1

\* No SIGTERM was delivered yet.
NoSignal == shutdown = "none"

\* No publish, consume or close call was made on the handle yet, and the
\* backend queue is empty.
TransportIdle ==
  /\ running = FALSE
  /\ list = <<>>
  /\ sqs = [s \in Slots |-> "none"]
  /\ rcv = [s \in Slots |-> 0]
  /\ pc = "idle"
  /\ cmdValid = TRUE
  /\ cur = <<>>
  /\ batch = {}
  /\ pubSend = [m \in Ids |-> "none"]
  /\ pubResult = [m \in Ids |-> "none"]
  /\ published = <<>>
  /\ invoked = {}
  /\ delivered = <<>>
  /\ succeeded = {}
  /\ failed = {}
  /\ parseFailed = {}
  /\ deletes = {}
  /\ acked = {}
  /\ closeCount = 0
  /\ closeResult = "none"
  /\ closedAt = "none"

\* State after createQueueTransport() (Redis: constructed and connected;
\* SQS: constructed with a queue URL) resp. after initRedis() connected.
Init ==
  /\ impl \in Impls
  /\ raw = NoText
  /\ ValidatorIdle
  /\ CodecIdle
  /\ SingleCaller
  /\ NoSignal
  /\ Started
  /\ clientOpen = TRUE
  /\ TransportIdle


\* ---- helpers ----
Body(s) == IF s = RawSlot THEN raw ELSE JSONstringify(Message(s))
SlotOf(body) == IF body = raw THEN RawSlot ELSE body[2][2].orderId[2] - FirstOrderId + 1
Malformed(b) == {r \in b : JSONparse(Body(r[1])) = SyntaxError}

\* What consume does once `await handler(message)' has settled.
\*   SQSTransport: resolved -> send DeleteMessageCommand; rejected -> inner
\*     catch, next message of the batch.
\*   RedisTransport: resolved -> loop; rejected -> catch, 1 s delay.
\*   processQueue: processNotification catches everything -> loop.
\* (Faulty variants: AckAlways deletes whatever the outcome, Rethrow lets a
\* rejection end SQSTransport.consume, Break lets it end RedisTransport.consume,
\* OuterCatch sends a rejection on SQS to the catch of the receive.)
AfterHandlerOuterCatch(i, outcome) ==
  IF i = "sqs" THEN (IF outcome = "resolved" THEN "delete" ELSE "backoff")
  ELSE IF i = "redis" THEN (IF outcome = "resolved" THEN "loop" ELSE "backoff")
  ELSE "loop"
AfterHandlerAckAlways(i, outcome) ==
  IF i = "sqs" THEN "delete"
  ELSE IF i = "redis" THEN (IF outcome = "resolved" THEN "loop" ELSE "backoff")
  ELSE "loop"
AfterHandlerRethrow(i, outcome) ==
  IF i = "sqs" THEN (IF outcome = "resolved" THEN "delete" ELSE "return")
  ELSE IF i = "redis" THEN (IF outcome = "resolved" THEN "loop" ELSE "backoff")
  ELSE "loop"
AfterHandlerBreak(i, outcome) ==
  IF i = "sqs" THEN (IF outcome = "resolved" THEN "delete" ELSE "next")
  ELSE IF i = "redis" THEN (IF outcome = "resolved" THEN "loop" ELSE "return")
  ELSE "loop"
AfterHandler(i, outcome) ==
  IF i = "sqs" THEN (IF outcome = "resolved" THEN "delete" ELSE "next")
  ELSE IF i = "redis" THEN (IF outcome = "resolved" THEN "loop" ELSE "backoff")
  ELSE "loop"

\* Where a body that JSON.parse rejects sends the consumer.
\* (Faulty variant: AfterParseErrorThrow lets the SyntaxError end
\* RedisTransport.consume and processQueue.)
AfterParseErrorThrow(i) == IF i = "sqs" THEN "next" ELSE "return"
AfterParseError(i) ==
  IF i = "sqs" THEN "next" ELSE IF i = "redis" THEN "backoff" ELSE "loop"

\* close(): RedisTransport awaits client.quit(), which rejects with
\* ClientClosedError on a client that is not open; SQSTransport calls
\* client.destroy(), which may be repeated.
CloseOutcome(i, open) ==
  IF i = "sqs" THEN "resolved" ELSE IF open THEN "resolved" ELSE "rejected"

\* DeleteMessage removes the message when the receipt handle is the one of
\* its latest receive.  (Faulty variant: a handle that deletes nothing.)
DeleteEffectStaleHandle(q, r, n) == q
DeleteEffect(q, r, n) == IF r[2] = n THEN [q EXCEPT ![r[1]] = "deleted"] ELSE q

\* Top of the while loop: test the flag, then issue the next receive.
GoLoop(r) ==
  /\ pc' = IF WhileRunning(r) THEN "recv" ELSE "done"
  /\ cmdValid' = IF impl = "sqs" THEN TRUE ELSE clientOpen
  /\ cur' = <<>>

\* for (const sqsMessage of response.Messages || []) continued over the
\* receipts b not yet iterated: bodies that do not parse are logged and
\* skipped, the first body that parses is handed to the handler, and the
\* while loop is re-entered when nothing is left.
Advance(b) ==
  LET bad == Malformed(b)
      good == b \ bad
  IN \E skip \in SUBSET bad :
       \/ /\ good # {}
          /\ \E r \in good :
               /\ batch' = b \ (skip \cup {r})
               /\ invoked' = invoked \cup {r}
               /\ cur' = r
          /\ parseFailed' = parseFailed \cup skip
          /\ pc' = "handler"
          /\ cmdValid' = cmdValid
       \/ /\ good = {}
          /\ skip = bad
          /\ batch' = {}
          /\ parseFailed' = parseFailed \cup bad
          /\ invoked' = invoked
          /\ GoLoop(running)

\* ---- producer ----
\* Each caller awaits its publish before it makes its next one; the ids are
\* dealt to the callers in turn.
Producer(m) == m % producers
NextId(m) ==
  /\ pubResult[m] = "none"
  /\ \A k \in Ids : (k < m /\ Producer(k) = Producer(m)) => pubResult[k] # "none"
\* Bodies sent to the managed queue that parse: the publish calls made so
\* far and the JSON text placed there directly.
SqsParseable(text) ==
  Cardinality({m \in Ids : pubResult[m] # "none"}) + (IF text = ScalarJson THEN 1 ELSE 0)

\* RedisTransport.publish (the order service's handle; in "notif" the
\* producer is another process with its own client).
RedisPublish(m, sendOk) ==
  /\ impl \in Local
  /\ NextId(m)
  /\ sendOk => (impl = "notif" \/ clientOpen)
  /\ list' = IF sendOk THEN lPush(list, JSONstringify(Message(m))) ELSE list
  /\ pubSend' = [pubSend EXCEPT ![m] = IF sendOk THEN "ok" ELSE "err"]
  /\ pubResult' = [pubResult EXCEPT ![m] = PublishOutcome(sendOk)]
  /\ published' = IF PublishOutcome(sendOk) = "resolved"
                  THEN Append(published, m) ELSE published
  /\ UNCHANGED <<impl, running, clientOpen, sqs, rcv, pc, cmdValid, cur, batch,
                 invoked, delivered, succeeded, failed, parseFailed, deletes, acked,
                 closeCount, closeResult, closedAt>>
  /\ UNCHANGED <<raw, validatorVars, codecVars, startVars, callerVars, shutdown>>

\* SQSTransport.publish
SQSPublish(m, sendOk) ==
  /\ impl = "sqs"
  /\ NextId(m)
  /\ SqsParseable(raw) < MaxSqsMsgs
  /\ sqs' = IF sendOk THEN [sqs EXCEPT ![m] = "visible"] ELSE sqs
  /\ pubSend' = [pubSend EXCEPT ![m] = IF sendOk THEN "ok" ELSE "err"]
  /\ pubResult' = [pubResult EXCEPT ![m] = PublishOutcome(sendOk)]
  /\ published' = IF PublishOutcome(sendOk) = "resolved"
                  THEN Append(published, m) ELSE published
  /\ UNCHANGED <<impl, running, clientOpen, list, rcv, pc, cmdValid, cur, batch,
                 invoked, delivered, succeeded, failed, parseFailed, deletes, acked,
                 closeCount, closeResult, closedAt>>
  /\ UNCHANGED <<raw, validatorVars, codecVars, startVars, callerVars, shutdown>>

\* ---- backend ----
\* Another client places a text in the queue directly: the string
\* "not-json", or the JSON text of a number.
RawTexts == {NotJson, ScalarJson}
InjectRaw(text) ==
  /\ raw = NoText
  /\ raw' = text
  /\ IF impl = "sqs"
     THEN /\ SqsParseable(text) <= MaxSqsMsgs
          /\ sqs' = [sqs EXCEPT ![RawSlot] = "visible"]
          /\ list' = list
     ELSE /\ list' = lPush(list, text)
          /\ sqs' = sqs
  /\ UNCHANGED <<impl, running, clientOpen, rcv, pc, cmdValid, cur, batch>>
  /\ UNCHANGED <<hist, validatorVars, codecVars, startVars, callerVars, shutdown>>

\* The visibility timeout of a received, undeleted message elapses.
VisibilityTimeout(s) ==
  /\ impl = "sqs"
  /\ sqs[s] = "inflight"
  /\ rcv[s] < MaxReceive
  /\ sqs' = [sqs EXCEPT ![s] = "visible"]
  /\ UNCHANGED <<impl, running, clientOpen, list, rcv, pc, cmdValid, cur, batch>>
  /\ UNCHANGED <<hist, raw, validatorVars, codecVars, startVars, callerVars, shutdown>>


\* ---- consumer ----
\* consume(handler) / processQueue() up to its first await.  processQueue
\* returns at once when isProcessing is set; the transports do not look.
ConsumeStart ==
  /\ pc = "idle"
  /\ impl = "notif" => ~running
  /\ running' = TRUE
  /\ GoLoop(TRUE)
  /\ UNCHANGED <<impl, clientOpen, list, sqs, rcv, batch>>
  /\ UNCHANGED <<hist, raw, validatorVars, codecVars, startVars, callerVars, shutdown>>

\* brPop(QUEUE_NAME, 1) returns an element: parse it and call the handler.
BrPopElement ==
  /\ impl \in Local
  /\ pc = "recv"
  /\ cmdValid
  /\ list # <<>>
  /\ LET body == brPopElement(list)
         s == SlotOf(body)
         r == <<s, rcv[s] + 1>>
     IN /\ list' = brPopRest(list)
        /\ rcv' = [rcv EXCEPT ![s] = @ + 1]
        /\ IF JSONparse(body) = SyntaxError
           THEN /\ parseFailed' = parseFailed \cup {r}
                /\ UNCHANGED <<invoked, delivered>>
                /\ IF AfterParseError(impl) = "backoff"
                   THEN pc' = "backoff" /\ cmdValid' = cmdValid /\ cur' = <<>>
                   ELSE IF AfterParseError(impl) = "return"
                   THEN pc' = "done" /\ cmdValid' = cmdValid /\ cur' = <<>>
                   ELSE GoLoop(running)
           ELSE /\ parseFailed' = parseFailed
                /\ invoked' = invoked \cup {r}
                /\ delivered' = IF s = RawSlot THEN delivered ELSE Append(delivered, s)
                /\ pc' = "handler"
                /\ cur' = r
                /\ cmdValid' = cmdValid
  /\ UNCHANGED <<impl, running, clientOpen, sqs, batch, pubSend, pubResult,
                 published, succeeded, failed, deletes, acked, closeCount,
                 closeResult, closedAt>>
  /\ UNCHANGED <<raw, validatorVars, codecVars, startVars, callerVars, shutdown>>

\* brPop times out on an empty list and returns null.
BrPopNull ==
  /\ impl \in Local
  /\ pc = "recv"
  /\ cmdValid
  /\ list = <<>>
  /\ GoLoop(running)
  /\ UNCHANGED <<impl, running, clientOpen, list, sqs, rcv, batch>>
  /\ UNCHANGED <<hist, raw, validatorVars, codecVars, startVars, callerVars, shutdown>>

\* ReceiveMessageCommand returns a batch S of visible messages (empty only
\* when the long poll found none); the for loop starts.
SQSReceive(S) ==
  /\ impl = "sqs"
  /\ pc = "recv"
  /\ LET vis == {s \in Slots : sqs[s] = "visible"}
     IN /\ S \subseteq vis
        /\ Cardinality(S) <= MaxNumberOfMessages
        /\ vis # {} => S # {}
  /\ sqs' = [s \in Slots |-> IF s \in S THEN "inflight" ELSE sqs[s]]
  /\ rcv' = [s \in Slots |-> IF s \in S THEN rcv[s] + 1 ELSE rcv[s]]
  /\ Advance({<<s, rcv[s] + 1>> : s \in S})
  /\ UNCHANGED <<impl, running, clientOpen, list, pubSend, pubResult,
                 published, delivered, succeeded, failed, deletes, acked, closeCount,
                 closeResult, closedAt>>
  /\ UNCHANGED <<raw, validatorVars, codecVars, startVars, callerVars, shutdown>>

\* The receive rejects (a command issued on a closed Redis client, or a
\* transient backend error): outer catch, fixed delay.
\* (Faulty variant: ReceiveErrorFatal lets the rejection end consume.)
ReceiveErrorFatal ==
  /\ pc = "recv"
  /\ pc' = "done"
  /\ UNCHANGED <<impl, running, clientOpen, list, sqs, rcv, cmdValid, cur, batch>>
  /\ UNCHANGED <<hist, raw, validatorVars, codecVars, startVars, callerVars, shutdown>>
ReceiveError ==
  /\ pc = "recv"
  /\ pc' = "backoff"
  /\ UNCHANGED <<impl, running, clientOpen, list, sqs, rcv, cmdValid, cur, batch>>
  /\ UNCHANGED <<hist, raw, validatorVars, codecVars, startVars, callerVars, shutdown>>

\* setTimeout of the catch block fires.
BackoffDone ==
  /\ pc = "backoff"
  /\ GoLoop(running)
  /\ UNCHANGED <<impl, running, clientOpen, list, sqs, rcv, batch>>
  /\ UNCHANGED <<hist, raw, validatorVars, codecVars, startVars, callerVars, shutdown>>

\* The code after `await handler(message)' settled with outcome o.
HandlerSettled(o) ==
  LET next == AfterHandler(impl, o)
  IN /\ IF next = "delete"
        THEN /\ deletes' = deletes \cup {cur}
             /\ pc' = "delete"
             /\ UNCHANGED <<cmdValid, cur, batch, parseFailed, invoked>>
        ELSE /\ deletes' = deletes
             /\ IF next = "next" THEN Advance(batch)
                ELSE /\ UNCHANGED <<batch, parseFailed, invoked>>
                     /\ IF next = "backoff"
                        THEN pc' = "backoff" /\ cmdValid' = cmdValid /\ cur' = <<>>
                        ELSE IF next = "return"
                        THEN pc' = "done" /\ cmdValid' = cmdValid /\ cur' = <<>>
                        ELSE GoLoop(running)

\* The handler promise resolves.
HandlerResolve ==
  /\ pc = "handler"
  /\ succeeded' = succeeded \cup {cur}
  /\ HandlerSettled("resolved")
  /\ UNCHANGED <<impl, running, clientOpen, list, sqs, rcv, pubSend,
                 pubResult, published, delivered, failed, acked, closeCount, closeResult,
                 closedAt>>
  /\ UNCHANGED <<raw, validatorVars, codecVars, startVars, callerVars, shutdown>>

\* The handler promise rejects.
HandlerReject ==
  /\ pc = "handler"
  /\ impl = "sqs" => rcv[cur[1]] < MaxReceive
  /\ failed' = failed \cup {cur}
  /\ HandlerSettled("rejected")
  /\ UNCHANGED <<impl, running, clientOpen, list, sqs, rcv, pubSend,
                 pubResult, published, delivered, succeeded, acked, closeCount, closeResult,
                 closedAt>>
  /\ UNCHANGED <<raw, validatorVars, codecVars, startVars, callerVars, shutdown>>

\* The DeleteMessageCommand settles; a rejection lands in the inner catch.
\* Either way the for loop goes on.
SQSDelete(sendOk) ==
  /\ pc = "delete"
  /\ sendOk \/ rcv[cur[1]] < MaxReceive
  /\ sqs' = IF sendOk THEN DeleteEffect(sqs, cur, rcv[cur[1]]) ELSE sqs
  /\ acked' = IF sendOk THEN acked \cup {cur} ELSE acked
  /\ Advance(batch)
  /\ UNCHANGED <<impl, running, clientOpen, list, rcv, pubSend, pubResult,
                 published, delivered, succeeded, failed, deletes, closeCount, closeResult,
                 closedAt>>
  /\ UNCHANGED <<raw, validatorVars, codecVars, startVars, callerVars, shutdown>>

\* close() / the SIGTERM handler of the notification service (up to the
\* end of `await redisClient.quit()').
Close ==
  /\ pc # "exited"
  /\ running' = FALSE
  /\ clientOpen' = FALSE
  /\ closeCount' = IF closeCount < 2 THEN closeCount + 1 ELSE closeCount
  /\ closeResult' = CloseOutcome(impl, clientOpen)
  /\ closedAt' = IF closedAt = "none" /\ pc \notin {"idle", "done"} THEN pc ELSE closedAt
  /\ UNCHANGED <<impl, list, sqs, rcv, pc, cmdValid, cur, batch, pubSend,
                 pubResult, published, invoked, delivered, succeeded, failed, parseFailed,
                 deletes, acked>>
  /\ UNCHANGED <<raw, validatorVars, codecVars, startVars, callerVars, shutdown>>

Next ==
  \/ \E m \in Ids, ok \in BOOLEAN : RedisPublish(m, ok)
  \/ \E m \in Ids, ok \in BOOLEAN : SQSPublish(m, ok)
  \/ \E text \in RawTexts : InjectRaw(text)
  \/ \E s \in Slots : VisibilityTimeout(s)
  \/ ConsumeStart
  \/ BrPopElement
  \/ BrPopNull
  \/ \E S \in SUBSET Slots : SQSReceive(S)
  \/ ReceiveError
  \/ BackoffDone
  \/ HandlerResolve
  \/ HandlerReject
  \/ \E ok \in BOOLEAN : SQSDelete(ok)
  \/ Close

Spec == Init /\ [][Next]_vars

TypeOK ==
  /\ impl \in Impls
  /\ running \in BOOLEAN /\ clientOpen \in BOOLEAN /\ cmdValid \in BOOLEAN
  /\ pc \in {"idle", "recv", "handler", "delete", "backoff", "done", "exited"}
  /\ \A s \in Slots : sqs[s] \in {"none", "visible", "inflight", "deleted"}
  /\ batch \subseteq Receipts
  /\ closeCount \in 0..2
  /\ shutdown \in {"none", "failed", "sdk", "exited"}


\* ---- scheduling ----
\* The await the consume loop is suspended on settles.
ConsumerStep ==
  \/ BrPopElement
  \/ BrPopNull
  \/ \E S \in SUBSET Slots : SQSReceive(S)
  \/ ReceiveError
  \/ BackoffDone
  \/ HandlerResolve
  \/ HandlerReject
  \/ \E ok \in BOOLEAN : SQSDelete(ok)

\* A long poll that returns message s.
ReceiveOf(s) == \E S \in SUBSET Slots : s \in S /\ SQSReceive(S)

\* Every awaited call settles: backend calls and timers by their timeouts,
\* handlers because they terminate.
FairSpec == Init /\ [][Next]_vars /\ WF_vars(ConsumerStep)

\* The managed transport while its consume loop keeps running (close() is
\* not called).  Besides the awaited calls settling, the visibility timeout
\* of a published message elapses, and a published message that stays
\* visible is eventually returned by a long poll.
SqsIds == 1..MaxSqsMsgs
InitSQS == Init /\ impl = "sqs"
NextSQS ==
  \/ \E m \in Ids, ok \in BOOLEAN : SQSPublish(m, ok)
  \/ \E text \in RawTexts : InjectRaw(text)
  \/ \E s \in Slots : VisibilityTimeout(s)
  \/ ConsumeStart
  \/ \E S \in SUBSET Slots : SQSReceive(S)
  \/ ReceiveError
  \/ BackoffDone
  \/ HandlerResolve
  \/ HandlerReject
  \/ \E ok \in BOOLEAN : SQSDelete(ok)
FairSpecSQS ==
  /\ InitSQS /\ [][NextSQS]_vars
  /\ WF_vars(ConsumerStep)
  /\ \A s \in SqsIds : WF_vars(VisibilityTimeout(s))
  /\ \A s \in SqsIds : SF_vars(ReceiveOf(s))

\* The transports with the handle left open (close() is not called).  A
\* receive error is transient: a non-empty list is eventually popped and a
\* visible published message is eventually returned by a long poll.
NextOpen ==
  \/ \E m \in Ids, ok \in BOOLEAN : RedisPublish(m, ok)
  \/ \E m \in Ids, ok \in BOOLEAN : SQSPublish(m, ok)
  \/ \E text \in RawTexts : InjectRaw(text)
  \/ \E s \in Slots : VisibilityTimeout(s)
  \/ ConsumeStart
  \/ BrPopElement
  \/ BrPopNull
  \/ \E S \in SUBSET Slots : SQSReceive(S)
  \/ ReceiveError
  \/ BackoffDone
  \/ HandlerResolve
  \/ HandlerReject
  \/ \E ok \in BOOLEAN : SQSDelete(ok)
FairSpecOpen ==
  /\ Init /\ [][NextOpen]_vars
  /\ WF_vars(ConsumerStep)
  /\ SF_vars(BrPopElement)
  /\ \A s \in SqsIds : SF_vars(ReceiveOf(s))

\* ---- shutdown of the notification service ----
\* The service after initRedis(): redisClient is assigned by createClient
\* before connect() is awaited, so it is set whether or not the connection
\* was established; processQueue is called only when it was.
ShutdownInit ==
  /\ impl = "notif"
  /\ raw = NoText
  /\ ValidatorIdle
  /\ CodecIdle
  /\ SingleCaller
  /\ NoSignal
  /\ Started
  /\ clientOpen \in BOOLEAN
  /\ TransportIdle

\* The SIGTERM handler up to the end of `await redisClient.quit()': it
\* clears isProcessing and quits the client.  When quit() resolves the
\* handler goes on to call sdk.shutdown(); when quit() rejects the handler
\* ends there, its rejection unhandled, and sdk.shutdown() is not called.
\* A handler that got as far as sdk.shutdown() is not undone by a later
\* signal.
Sigterm ==
  /\ impl = "notif"
  /\ pc # "exited"
  /\ running' = FALSE
  /\ clientOpen' = FALSE
  /\ closeCount' = IF closeCount < 2 THEN closeCount + 1 ELSE closeCount
  /\ closeResult' = CloseOutcome(impl, clientOpen)
  /\ closedAt' = IF closedAt = "none" /\ pc \notin {"idle", "done"} THEN pc ELSE closedAt
  /\ shutdown' = IF CloseOutcome(impl, clientOpen) = "resolved" THEN "sdk"
                 ELSE IF shutdown = "none" THEN "failed"
                 ELSE shutdown
  /\ UNCHANGED <<impl, list, sqs, rcv, pc, cmdValid, cur, batch, pubSend,
                 pubResult, published, invoked, delivered, succeeded, failed, parseFailed,
                 deletes, acked>>
  /\ UNCHANGED <<raw, validatorVars, codecVars, startVars, callerVars>>

\* The rest of the handler: sdk.shutdown() settles and process.exit is
\* called, with 0 from then() or with 1 from catch().  Nothing waits for
\* processQueue; the process ends wherever the loop is.
ProcessExit ==
  /\ impl = "notif"
  /\ shutdown = "sdk"
  /\ pc # "exited"
  /\ pc' = "exited"
  /\ shutdown' = "exited"
  /\ UNCHANGED <<impl, running, clientOpen, list, sqs, rcv, cmdValid, cur, batch>>
  /\ UNCHANGED <<hist, raw, validatorVars, codecVars, startVars, callerVars>>

NextShutdown ==
  \/ \E m \in Ids, ok \in BOOLEAN : RedisPublish(m, ok)
  \/ \E text \in RawTexts : InjectRaw(text)
  \/ clientOpen /\ ConsumeStart
  \/ BrPopElement
  \/ BrPopNull
  \/ ReceiveError
  \/ BackoffDone
  \/ HandlerResolve
  \/ HandlerReject
  \/ Sigterm
  \/ ProcessExit
ShutdownSpec == ShutdownInit /\ [][NextShutdown]_vars

\* Every awaited call settles, sdk.shutdown() included.
FairShutdownSpec == ShutdownSpec /\ WF_vars(ConsumerStep) /\ WF_vars(ProcessExit)

\* ---- a second consume() call on the handle ----
\* Both calls run the same code.  pc, cmdValid, cur and batch are those of
\* the call whose continuation runs next, `other' holds those of the other
\* call; the event loop turns from one call to the other.
OtherCall ==
  /\ other' = [pc |-> pc, cmdValid |-> cmdValid, cur |-> cur, batch |-> batch]
  /\ pc' = other.pc
  /\ cmdValid' = other.cmdValid
  /\ cur' = other.cur
  /\ batch' = other.batch
  /\ UNCHANGED <<impl, running, clientOpen, list, sqs, rcv, producers, shutdown>>
  /\ UNCHANGED <<hist, raw, validatorVars, codecVars, startVars>>

NextReentry == Next \/ OtherCall
ReentrySpec == Init /\ [][NextReentry]_vars

\* ---- several callers publishing on one RedisTransport handle ----
ProducersInit ==
  /\ impl = "redis"
  /\ raw = NoText
  /\ ValidatorIdle
  /\ CodecIdle
  /\ Started
  /\ clientOpen = TRUE
  /\ TransportIdle
  /\ other = NotCalled
  /\ producers \in 2..MaxMsgs
  /\ NoSignal
NextProducers ==
  \/ \E m \in Ids, ok \in BOOLEAN : RedisPublish(m, ok)
  \/ \E text \in RawTexts : InjectRaw(text)
  \/ ConsumeStart
  \/ BrPopElement
  \/ BrPopNull
  \/ ReceiveError
  \/ BackoffDone
  \/ HandlerResolve
  \/ HandlerReject
  \/ Close
ProducersSpec == ProducersInit /\ [][NextProducers]_vars

\* ---- message validator applied to bounded inputs ----
\* The objects the callers serialize: every field right, wrong or missing.
Objects ==
  { Obj([type |-> t, orderId |-> o, userId |-> u, userName |-> Str("Alice"),
         total |-> tot, timestamp |-> Str("2026-02-21T10:00:00.000Z"),
         traceContext |-> c, unknownField |-> x]) :
      t \in {Str("order_created"), Num(123), Undefined},
      o \in {Num(42), Str("not-a-number"), Undefined, NaN},
      u \in {Num(7), Str("7"), Undefined, NaN},
      tot \in {Num(100), Str("10.00"), Undefined, NaN},
      c \in {Undefined, Carrier(Str("00-abc-def-01")), Carrier(Num(42)),
             Str("not-an-object")},
      x \in {Undefined, Str("value"), NaN} }
\* The texts handed to the validator as they are.
Texts ==
  {NotJson, Incomplete, EmptyText, <<"json", Str("string")>>, ScalarJson,
   <<"json", Null>>, <<"json", EmptyArray>>}

ValidatorInit ==
  /\ impl = "redis"
  /\ Started
  /\ clientOpen = TRUE
  /\ TransportIdle
  /\ sent \in Objects \cup {Undefined}
  /\ raw \in IF sent = Undefined THEN Texts ELSE {NoText}
  /\ decoded = Undefined
  /\ CodecIdle
  /\ SingleCaller
  /\ NoSignal

\* JSON.stringify(object)
Stringify ==
  /\ sent # Undefined
  /\ raw = NoText
  /\ raw' = JSONstringify(sent)
  /\ UNCHANGED <<impl, running, clientOpen, list, sqs, rcv, pc, cmdValid, cur, batch>>
  /\ UNCHANGED <<hist, validatorVars, codecVars, startVars, callerVars, shutdown>>

\* safeParseMessage(raw)
SafeParse ==
  /\ raw # NoText
  /\ decoded = Undefined
  /\ decoded' = <<"result", safeParseMessage(raw)>>
  /\ UNCHANGED <<impl, running, clientOpen, list, sqs, rcv, pc, cmdValid, cur, batch>>
  /\ UNCHANGED <<hist, raw, sent, startVars, codecVars, callerVars, shutdown>>

NextValidator == Stringify \/ SafeParse
ValidatorSpec == ValidatorInit /\ [][NextValidator]_vars

\* ---- one envelope followed from injectTraceContext to the handler ----
\* Truthiness of a value (`notification.traceContext ? ... : ...').
Truthy(v) == v[1] \notin {"undefined", "null", "nan"} /\ v # Num(0) /\ v # Str("")
\* processNotification: the context its handler code runs under.
\* (Faulty variant: extractedContextRoot never reads the carrier.)
extractedContextRoot(notification) == ROOT_CONTEXT
extractedContext(notification) ==
  IF notification[1] = "object" /\ Truthy(notification[2].traceContext)
  THEN extract(ROOT_CONTEXT, notification[2].traceContext)
  ELSE ROOT_CONTEXT
\* The context active while the handler of implementation i runs on a
\* message: processNotification enters the extracted context; the
\* transports call handler(message) in the context of their consume loop.
HandlerContext(i, notification) ==
  IF i = "notif" THEN extractedContext(notification) ELSE ROOT_CONTEXT

\* The envelopes a caller holds: with and without a carrier of its own, with
\* a total JSON can and cannot write.
CodecMessages ==
  { Obj([QueueMessage(1, c)[2] EXCEPT !.total = tot]) :
      c \in {Undefined, EmptyCarrier, ForeignCarrier, Carrier(Str("garbage")),
             Carrier(Str(Traceparent)),
             Carrier(Str(traceParent(INVALID_TRACEID, "0011223344556677", "01")))},
      tot \in {Num(100), NaN} }

CodecInit ==
  /\ impl \in Impls
  /\ Started
  /\ clientOpen = TRUE
  /\ TransportIdle
  /\ SingleCaller
  /\ NoSignal
  /\ ValidatorIdle
  /\ raw = NoText
  /\ active \in Contexts
  /\ arg \in CodecMessages
  /\ handed = Undefined
  /\ restored = Undefined

\* const notification = injectTraceContext(arg)
InjectTraceContext ==
  /\ sent = Undefined
  /\ arg' = injectTraceContextCall(arg, active).argument
  /\ sent' = injectTraceContextCall(arg, active).result
  /\ UNCHANGED <<impl, running, clientOpen, list, sqs, rcv, pc, cmdValid, cur, batch>>
  /\ UNCHANGED <<hist, raw, decoded, startVars, callerVars, shutdown, active, handed, restored>>

\* publish(message): the message is the injected one, or the caller's own
\* object when the caller did not inject.
PublishMessage ==
  /\ raw = NoText
  /\ sent' = IF sent = Undefined THEN arg ELSE sent
  /\ raw' = JSONstringify(sent')
  /\ UNCHANGED <<impl, running, clientOpen, list, sqs, rcv, pc, cmdValid, cur, batch>>
  /\ UNCHANGED <<hist, decoded, startVars, codecVars, callerVars, shutdown>>

\* The consumer receives the text, parses it and runs the handler on it.
HandleMessage ==
  /\ raw # NoText
  /\ handed = Undefined
  /\ handed' = JSONparse(raw)[2]
  /\ restored' = HandlerContext(impl, handed')
  /\ UNCHANGED <<impl, running, clientOpen, list, sqs, rcv, pc, cmdValid, cur, batch>>
  /\ UNCHANGED <<hist, raw, validatorVars, startVars, callerVars, shutdown, active, arg>>

NextCodec == InjectTraceContext \/ PublishMessage \/ HandleMessage
CodecSpec == CodecInit /\ [][NextCodec]_vars

\* ---- order service start-up ----
\* process.env.X || fallback
OrElse(v, fallback) == IF v \in {Unset, ""} THEN fallback ELSE v
\* switch (type): case 'sqs' / case 'redis', default
\* (Faulty variant: SwitchCaseManaged also takes 'managed' for SQS.)
SwitchCaseManaged(type) ==
  IF type \in {"sqs", "managed"} THEN "SQSTransport" ELSE "RedisTransport"
SwitchCase(type) == IF type = "sqs" THEN "SQSTransport" ELSE "RedisTransport"
\* new SQSTransport(): throws when the queue URL is empty.
\* (Faulty variant: SQSConstructorUnsetOnly accepts an empty URL.)
SQSConstructorUnsetOnly(url) == IF url = Unset THEN "throw" ELSE "constructed"
SQSConstructor(url) == IF OrElse(url, "") = "" THEN "throw" ELSE "constructed"

EnvTransports == {Unset, "", "redis", "sqs", "local", "managed"}
EnvUrls == {Unset, "", "https://sqs/queue"}

\* The order service process before its module code ran.
StartInit ==
  /\ impl = "redis"
  /\ raw = NoText
  /\ ValidatorIdle
  /\ CodecIdle
  /\ SingleCaller
  /\ NoSignal
  /\ TransportIdle
  /\ clientOpen = FALSE
  /\ envTransport \in EnvTransports
  /\ envUrl \in EnvUrls
  /\ boot = "init"
  /\ constructed = <<>>
  /\ queue = "undefined"
  /\ listening = FALSE
  /\ posts = <<>>

\* The module code calls createQueueTransport(), which runs up to its first
\* await.  For SQS the promise is settled at once, and its then/catch
\* callback runs before any request is handled.
ProcessStart ==
  /\ boot = "init"
  /\ LET class == SwitchCase(OrElse(envTransport, "redis"))
     IN /\ constructed' = Append(constructed, class)
        /\ IF class = "SQSTransport"
           THEN IF SQSConstructor(envUrl) = "throw"
                THEN boot' = "rejected" /\ queue' = queue
                ELSE boot' = "resolved" /\ queue' = "sqs"
           ELSE boot' = "connecting" /\ queue' = queue
  /\ UNCHANGED <<impl, running, clientOpen, list, sqs, rcv, pc, cmdValid, cur, batch>>
  /\ UNCHANGED <<hist, raw, validatorVars, codecVars, callerVars, shutdown, envTransport, envUrl, listening, posts>>

\* `await transport.connect()' settles; createQueueTransport resolves with
\* the connected transport or rejects, and the then/catch callback runs.
ConnectSettled(ok) ==
  /\ boot = "connecting"
  /\ boot' = IF ok THEN "resolved" ELSE "rejected"
  /\ clientOpen' = ok
  /\ queue' = IF ok THEN "redis" ELSE queue
  /\ UNCHANGED <<impl, running, list, sqs, rcv, pc, cmdValid, cur, batch>>
  /\ UNCHANGED <<hist, raw, validatorVars, codecVars, callerVars, shutdown, envTransport, envUrl, constructed,
                 listening, posts>>

\* app.listen: the server accepts requests.
Listen ==
  /\ boot # "init"
  /\ ~listening
  /\ listening' = TRUE
  /\ UNCHANGED <<impl, running, clientOpen, list, sqs, rcv, pc, cmdValid, cur, batch>>
  /\ UNCHANGED <<hist, raw, validatorVars, codecVars, callerVars, shutdown, envTransport, envUrl, boot, constructed,
                 queue, posts>>

\* Outcomes of the requests that created an order, and the id of the next
\* order.
Created == {"201", "201-unpublished", "500-publish"}
nextOrderId == FirstOrderId + Cardinality({i \in 1..Len(posts) : posts[i] \in Created})

\* POST /orders.  req: "invalid" (validation fails), "unknown-user" (the
\* user service answers 404), "lookup-error" (it fails otherwise), "ok".
\* The order is stored before the notification is published, and the
\* notification is published only when `queue' is set.
PostOrder(req, sendOk) ==
  /\ listening
  /\ Len(posts) < MaxMsgs
  /\ LET m == nextOrderId - FirstOrderId + 1
         publish == req = "ok" /\ queue # "undefined"
         sendOK == publish /\ sendOk
     IN /\ posts' = Append(posts,
                      IF req = "invalid" THEN "400"
                      ELSE IF req = "unknown-user" THEN "404"
                      ELSE IF req = "lookup-error" THEN "500-lookup"
                      ELSE IF ~publish THEN "201-unpublished"
                      ELSE IF PublishOutcome(sendOk) = "resolved" THEN "201"
                      ELSE "500-publish")
        /\ list' = IF sendOK /\ queue = "redis"
                   THEN lPush(list, JSONstringify(Message(m))) ELSE list
        /\ sqs' = IF sendOK /\ queue = "sqs" THEN [sqs EXCEPT ![m] = "visible"] ELSE sqs
        /\ pubSend' = IF publish
                      THEN [pubSend EXCEPT ![m] = IF sendOk THEN "ok" ELSE "err"]
                      ELSE pubSend
        /\ pubResult' = IF publish
                        THEN [pubResult EXCEPT ![m] = PublishOutcome(sendOk)]
                        ELSE pubResult
        /\ published' = IF publish /\ PublishOutcome(sendOk) = "resolved"
                        THEN Append(published, m) ELSE published
  /\ UNCHANGED <<impl, running, clientOpen, rcv, pc, cmdValid, cur, batch,
                 invoked, delivered, succeeded, failed, parseFailed, deletes, acked,
                 closeCount, closeResult, closedAt>>
  /\ UNCHANGED <<raw, validatorVars, codecVars, callerVars, shutdown, envTransport, envUrl, boot, constructed,
                 queue, listening>>

Requests == {"invalid", "unknown-user", "lookup-error", "ok"}
NextStart ==
  \/ ProcessStart
  \/ \E ok \in BOOLEAN : ConnectSettled(ok)
  \/ Listen
  \/ \E req \in Requests, ok \in BOOLEAN : PostOrder(req, ok)
StartSpec == StartInit /\ [][NextStart]_vars

InFlight == {"recv", "handler", "delete", "backoff"}
IsPrefix(a, b) == Len(a) <= Len(b) /\ \A i \in 1..Len(a) : a[i] = b[i]
InList(body) == \E i \in 1..Len(list) : list[i] = body
Stored(m) == IF impl = "sqs" THEN sqs[m] # "none" ELSE InList(JSONstringify(Message(m))) \/ rcv[m] > 0

\* C1: SQS consume sends a delete for a receipt only once the handler
\* invocation for that receipt has resolved, and never for a receipt whose
\* handler invocation rejected or whose body did not parse.
C1_DeleteOnlyAfterSuccess ==
  impl = "sqs" =>
    /\ deletes \subseteq succeeded
    /\ deletes \cap (failed \cup parseFailed) = {}
    /\ acked \subseteq deletes
    /\ pc = "handler" => cur \notin deletes

C1_Witness ==
  /\ impl = "sqs"
  /\ \E r \in failed : \E d \in deletes : d[1] = r[1] /\ d[2] > r[2]

\* C2: SQS at-least-once.  A message leaves the queue only after a handler
\* invocation for it resolved, and a receipt whose handler rejected is
\* followed, unless close() is called, by a later handler invocation for
\* the same message.
C2_NotLost ==
  impl = "sqs" =>
    \A m \in Ids : sqs[m] = "deleted" => \E r \in succeeded : r[1] = m

C2_Pending(m) == \E r \in failed : r[1] = m /\ <<m, r[2] + 1>> \notin invoked

C2_AtLeastOnce ==
  /\ []C2_NotLost
  /\ \A m \in SqsIds : C2_Pending(m) ~> (~C2_Pending(m) \/ closeCount > 0)

C2_Witness ==
  /\ impl = "sqs"
  /\ closeCount = 0
  /\ \E r \in failed : <<r[1], r[2] + 1>> \in invoked /\ sqs[r[1]] # "deleted"

\* C3 as claimed: once the handler resolved for a received message the
\* message is deleted and is never received again.
C3_NeverAgainAfterSuccess ==
  impl = "sqs" => \A r \in succeeded : rcv[r[1]] = r[2]

\* C3 amended: once the delete sent after a resolved handler succeeded, the
\* message is gone from the queue and is never received again.
C3_NeverAgainAfterDelete ==
  impl = "sqs" =>
    \A r \in acked : sqs[r[1]] = "deleted" /\ rcv[r[1]] = r[2]

C3_Witness ==
  /\ impl = "sqs"
  /\ \E r \in acked : r[2] = 2 /\ <<r[1], 1>> \in succeeded /\ sqs[r[1]] = "deleted"

\* C4: on the Redis list the handler sees the messages in the order in
\* which their publish calls resolved.
C4_Fifo == impl \in Local => IsPrefix(delivered, published)

C4_Witness ==
  /\ impl = "redis"
  /\ delivered = <<1, 2, 3>>
  /\ rcv[RawSlot] = 1

\* C5: on the Redis list every message is popped, and handed to the
\* handler, at most once: a popped body is no longer in the list, also
\* after its handler rejected.
C5_AtMostOnce ==
  impl \in Local =>
    /\ \A s \in Slots : rcv[s] <= 1
    /\ \A s \in Slots : rcv[s] = 1 => ~InList(Body(s))
    /\ \A i, j \in 1..Len(delivered) : delivered[i] = delivered[j] => i = j

C5_Witness ==
  /\ impl \in Local
  /\ \E r \in failed : ~InList(Body(r[1]))
  /\ pc = "recv"
  /\ Len(delivered) >= 2

\* C6: a rejected handler never ends consume: until close() is called the
\* loop stays in flight with the running flag set.
C6_FailureDoesNotStopLoop ==
  (failed # {} /\ closeCount = 0) => (pc \in InFlight /\ running)

C6_Witness ==
  /\ closeCount = 0
  /\ Len(delivered) >= 2
  /\ <<delivered[1], 1>> \in failed
  /\ <<delivered[2], 1>> \in succeeded

\* C7: once close() has cleared the flag while consume is in flight,
\* consume returns.
C7_CloseStopsLoop == (~running /\ pc \in InFlight) ~> (pc = "done")

C7_Witness ==
  /\ closedAt = "handler"
  /\ pc = "done"

\* C8 as claimed: close() on a handle that is already closed resolves and
\* leaves the handle as it was (flag cleared, connection released).
C8_CloseIdempotent ==
  [][(closeCount >= 1 /\ ~running /\ ~clientOpen /\ Close)
       => (closeResult' = "resolved" /\ ~running' /\ ~clientOpen')]_vars

\* C9: a publish that resolves has stored the envelope in the backend, and
\* a failed send is reported to the caller.
C9_PublishNotSilent ==
  \A m \in Ids :
    /\ pubResult[m] = "resolved" => (pubSend[m] = "ok" /\ Stored(m))
    /\ pubSend[m] = "err" => pubResult[m] \in {"rejected", "failure_value"}

C9_Witness ==
  /\ impl \in Local
  /\ \E m, k \in Ids : pubSend[m] = "err" /\ pubResult[k] = "resolved"

\* C10 as claimed: no exception escapes publish.
C10_NoExceptionEscapes == \A m \in Ids : pubResult[m] # "rejected"

\* C10 amended: publish has no result value; it resolves exactly when the
\* send succeeded and rejects, the error escaping to the caller, exactly
\* when the send failed.
C10_FailureIsRejection ==
  \A m \in Ids :
    /\ pubSend[m] = "ok" <=> pubResult[m] = "resolved"
    /\ pubSend[m] = "err" <=> pubResult[m] = "rejected"

C10_Witness ==
  /\ impl = "sqs"
  /\ \E m \in Ids : pubResult[m] = "rejected"

\* The message in slot s is still in the backend queue.
InQueue(s) ==
  IF impl = "sqs" THEN sqs[s] \in {"visible", "inflight"} ELSE InList(Body(s))
\* The valid message m waits in the queue with the injected text ahead of it.
Behind(m) ==
  IF impl = "sqs"
  THEN sqs[RawSlot] \in {"visible", "inflight"} /\ sqs[m] = "visible"
  ELSE \E i, j \in 1..Len(list) : i < j /\ list[i] = Body(m) /\ list[j] = raw

\* C11 as claimed: a body that does not decode (here: that JSON.parse
\* rejects) is gone from the queue once the consume loop has received it,
\* and is never received a second time, whatever the transport.
C11_MalformedNeverRetried ==
  \A s \in Slots :
    (rcv[s] >= 1 /\ JSONparse(Body(s)) = SyntaxError) => (rcv[s] = 1 /\ ~InQueue(s))

\* C12: with the string "not-json" in the backend queue the consume loop
\* keeps running after it received that string, and every valid message
\* that waits behind it is handed to the handler.
C12_LoopSurvivesNotJson ==
  /\ [](raw = NotJson /\ rcv[RawSlot] >= 1 => pc \in InFlight /\ running)
  /\ \A m \in Ids :
       (raw = NotJson /\ pc \in InFlight /\ Behind(m) /\ rcv[m] = 0)
         ~> (<<m, 1>> \in invoked)

C12_Witness ==
  /\ impl = "redis"
  /\ raw = NotJson
  /\ <<RawSlot, 1>> \in parseFailed
  /\ pc = "handler"
  /\ cur = <<2, 1>>
  /\ <<1, 1>> \in failed

\* C13 as claimed: the handler is invoked only with a payload that is a
\* valid envelope: an object with the fields of a QueueMessage.
C13_HandlerGetsValidEnvelope ==
  \A r \in invoked : WellTyped(JSONparse(Body(r[1]))[2])

\* C14: when QUEUE_TRANSPORT selects SQS and SQS_QUEUE_URL is unset or
\* empty, the constructor throws: createQueueTransport rejects, no handle
\* is ever assigned, and no publish or consume call is made.
C14_NoHandleWithoutUrl ==
  (envTransport = "sqs" /\ envUrl \in {Unset, ""} /\ boot # "init") =>
    /\ boot = "rejected"
    /\ queue = "undefined"
    /\ \A i \in 1..Len(posts) : posts[i] \notin {"201", "500-publish"}
    /\ \A m \in Ids : pubSend[m] = "none" /\ sqs[m] = "none"
    /\ pc = "idle"

C14_Witness ==
  /\ envTransport = "sqs"
  /\ envUrl = ""
  /\ boot = "rejected"
  /\ listening
  /\ \E i \in 1..Len(posts) : posts[i] = "201-unpublished"

\* C15 as claimed: when creating the transport failed, the process does
\* not start: it does not listen and serves no order-creation request.
C15_FailedStartIsFatal ==
  boot = "rejected" => (~listening /\ posts = <<>>)

\* C16: createQueueTransport constructs exactly one implementation per
\* call: SQSTransport exactly when QUEUE_TRANSPORT is 'sqs', RedisTransport
\* otherwise; it resolves with the SQS transport exactly when the variable
\* is 'sqs', and with the Redis transport, connected, when the variable is
\* unset or 'redis'.
C16_FactorySelects ==
  boot # "init" =>
    /\ Len(constructed) = 1
    /\ constructed[1] = "SQSTransport" <=> envTransport = "sqs"
    /\ boot = "resolved" => (queue = "sqs" <=> envTransport = "sqs")
    /\ (boot = "resolved" /\ envTransport \in {Unset, "redis"}) => queue = "redis"
    /\ queue = "redis" => clientOpen

C16_Witness ==
  /\ envTransport = Unset
  /\ boot = "resolved"
  /\ queue = "redis"
  /\ clientOpen
  /\ constructed = <<"RedisTransport">>

\* C17: safeParseMessage returns null for every object in which one of
\* type, orderId, userId, total is missing or of the wrong type (type not a
\* string; orderId, userId, total not a number), whatever the other fields.
C17_RequiredFieldsChecked ==
  (/\ decoded # Undefined
   /\ raw[1] = "json"
   /\ raw[2][1] = "object"
   /\ \/ TypeOf(raw[2][2].type) # "string"
      \/ TypeOf(raw[2][2].orderId) # "number"
      \/ TypeOf(raw[2][2].userId) # "number"
      \/ TypeOf(raw[2][2].total) # "number")
    => decoded = <<"result", Null>>

C17_Witness ==
  /\ decoded = <<"result", Null>>
  /\ sent # Undefined
  /\ sent[2].type = Str("order_created")
  /\ sent[2].orderId = Num(42)
  /\ sent[2].userId = Num(7)
  /\ sent[2].total = Str("10.00")
  /\ sent[2].traceContext = Carrier(Str("00-abc-def-01"))
  /\ sent[2].unknownField = Str("value")

\* C18: safeParseMessage returns null (a result, not a throw) for every
\* text that is not JSON, the empty string included, and for every JSON
\* text whose top level is not an object: array, string, number, null.
C18_NonObjectRejected ==
  (decoded # Undefined /\ ~(raw[1] = "json" /\ raw[2][1] = "object"))
    => decoded = <<"result", Null>>

C18_Witness ==
  /\ raw = EmptyText
  /\ decoded = <<"result", Null>>

\* C19: safeParseMessage returns null for an object whose required fields
\* are right and whose traceContext is present but is not an object, or
\* holds a value that is not a string.
C19_CarrierChecked ==
  (/\ decoded # Undefined
   /\ raw[1] = "json"
   /\ raw[2][1] = "object"
   /\ raw[2][2].traceContext # Undefined
   /\ \/ raw[2][2].traceContext[1] # "object"
      \/ \E k \in DOMAIN raw[2][2].traceContext[2] :
           TypeOf(raw[2][2].traceContext[2][k]) # "string")
    => decoded = <<"result", Null>>

C19_Witness ==
  /\ decoded = <<"result", Null>>
  /\ sent # Undefined
  /\ sent[2].type = Str("order_created")
  /\ sent[2].orderId = Num(42)
  /\ sent[2].userId = Num(7)
  /\ sent[2].total = Num(100)
  /\ sent[2].traceContext = Carrier(Num(42))

\* C20 as claimed: for every well-typed message, safeParseMessage of its
\* serialized form returns a message equal to it.
C20_RoundTrip ==
  (decoded # Undefined /\ sent # Undefined /\ WellTyped(sent))
    => decoded = <<"result", sent>>

\* C20 amended: for every well-typed message whose numbers JSON can write,
\* safeParseMessage of its serialized form returns a message equal to it,
\* carrier and unknown field included.
C20_RoundTripFinite ==
  (decoded # Undefined /\ sent # Undefined /\ WellTyped(sent) /\ Finite(sent))
    => decoded = <<"result", sent>>

C20_Witness ==
  /\ decoded = <<"result", sent>>
  /\ sent # Undefined
  /\ sent[2].traceContext = Carrier(Str("00-abc-def-01"))
  /\ sent[2].unknownField = Str("value")

\* C21: injectTraceContext returns an envelope with every field of its
\* argument and a traceContext carrier written from the active context (the
\* traceparent of the active span context, nothing when there is none), and
\* the argument is afterwards what it was before the call.
C21_InjectLeavesArgument ==
  [][InjectTraceContext =>
       /\ arg' = arg
       /\ \A k \in DOMAIN arg[2] \ {"traceContext"} : sent'[2][k] = arg[2][k]
       /\ sent'[2].traceContext[1] = "object"
       /\ IF active[1] = "span" /\ active[2].traceId \in TraceIds
          THEN sent'[2].traceContext[2].traceparent =
                 Str("00-" \o active[2].traceId \o "-" \o active[2].spanId
                     \o "-" \o active[2].traceFlags)
          ELSE DOMAIN sent'[2].traceContext[2] = {}]_vars
\* The call was made on a message without a carrier under the span context
\* of the test suite, and the message still has no carrier.
C21_Witness ==
  /\ sent # Undefined
  /\ raw = NoText
  /\ arg[2].traceContext = Undefined
  /\ sent[2].traceContext = Carrier(Str(Traceparent))

HandlerArgument(s) == JSONparse(Body(s))[2]

C24_NoCarrierRunsUnderRoot ==
  (/\ restored # Undefined
   /\ handed[1] = "object"
   /\ \/ handed[2].traceContext = Undefined
      \/ /\ handed[2].traceContext[1] = "object"
         /\ "traceparent" \notin DOMAIN handed[2].traceContext[2])
  => restored = ROOT_CONTEXT
\* The notification service handled an envelope whose carrier has only a
\* key the propagator does not read.
C24_Witness ==
  /\ impl = "notif"
  /\ restored = ROOT_CONTEXT
  /\ handed[1] = "object"
  /\ handed[2].traceContext = ForeignCarrier

C26_OneLoopPerHandle ==
  /\ ~(pc \in InFlight /\ other.pc \in InFlight)
  /\ ~(pc = "handler" /\ other.pc = "handler")

\* Occurrences of the body of envelope m in the list.
Copies(m) == Cardinality({i \in 1..Len(list) : list[i] = JSONstringify(Message(m))})

\* C27: with several callers publishing on one RedisTransport handle, every
\* message whose publish succeeded is stored exactly once (it is in the
\* list once or was popped once, never both), a message whose publish
\* failed is not stored, the handler sees the messages in the order they
\* arrived at the list, and the messages of one caller are handled in the
\* order that caller published them.
C27_ConcurrentProducers ==
  /\ \A m \in Ids : Copies(m) + rcv[m] = (IF pubSend[m] = "ok" THEN 1 ELSE 0)
  /\ IsPrefix(delivered, published)
  /\ \A i, j \in 1..Len(delivered) :
       (i < j /\ Producer(delivered[i]) = Producer(delivered[j]))
         => delivered[i] < delivered[j]
\* Two callers published; the second caller's first envelope reached the
\* list before the first caller's, and all three envelopes were handled.
C27_Witness ==
  /\ producers = 2
  /\ Len(delivered) = 3
  /\ delivered[1] = 2
  /\ delivered[2] = 1

\* C28: a receive that fails is not the end of the consume loop: the loop
\* goes into its fixed delay, after the delay it tests the flag and issues
\* the next receive unless close() was called, and with the handle left
\* open every stored message not yet received, whether it was there during
\* the delay or arrives later, is handed to the handler.
C28_ReceiveErrorNotFatal ==
  /\ [][(pc = "recv" /\ pc' # "recv" /\ rcv' = rcv) => pc' = "backoff"]_vars
  /\ [][(pc = "backoff" /\ pc' # "backoff")
          => pc' = (IF running THEN "recv" ELSE "done")]_vars
  /\ \A m \in Ids :
       (pc \in {"backoff", "recv"} /\ pubSend[m] = "ok" /\ rcv[m] = 0)
         ~> (<<m, 1>> \in invoked)
\* The receive of the managed transport failed and the loop is in its
\* delay, with a published message waiting in the queue.
C28_Witness ==
  /\ impl = "sqs"
  /\ pc = "backoff"
  /\ sqs[1] = "visible"
  /\ rcv[1] = 0

\* C29: a handler invocation that is in progress when close() or the
\* shutdown signal arrives runs to completion and its outcome is acted on
\* before the loop is over: once the loop is over, every invocation has
\* settled, and on the managed transport a delete was sent for every
\* invocation that succeeded.
C29_NoHandlerAbandoned ==
  pc \in {"done", "exited"} =>
    /\ \A r \in invoked : r \in succeeded \cup failed
    /\ impl = "sqs" => \A r \in succeeded : r \in deletes

\* The receipts the managed backend has handed out so far.
HandedOut == {r \in Receipts : r[2] <= rcv[r[1]]}

\* C30: on the managed transport a parse error, a handler error or a delete
\* error on one message of a batch does not stop the batch: every message
\* received is parsed (and, when it parses, handed to the handler) or still
\* waits in the batch, nothing waits once the loop is back at the receive,
\* every successful invocation gets its delete, and no step inside a batch
\* leads to the back-off delay.
C30_BatchGoesOn ==
  /\ [](impl = "sqs" =>
          /\ HandedOut = invoked \cup parseFailed \cup batch
          /\ pc \in {"idle", "recv", "backoff", "done"} => batch = {}
          /\ succeeded \subseteq deletes)
  /\ [][(impl = "sqs" /\ pc \in {"handler", "delete"}) => pc' # "backoff"]_vars
\* The handler is running on the published message after the text
\* "not-json", received with it, failed to parse.
C30_Witness ==
  /\ impl = "sqs"
  /\ pc = "handler"
  /\ cur = <<1, 1>>
  /\ parseFailed = {<<RawSlot, 1>>}
  /\ sqs[RawSlot] = "inflight"

\* C31: once close() has been called on the handle no handler invocation
\* begins any more; an invocation in progress may complete.
C31_NoNewHandlerAfterClose ==
  [][closeCount >= 1 => invoked' \subseteq invoked]_vars

\* C32: once close() has been called the running flag stays false, and a
\* consume() call made afterwards runs no loop (it issues no receive).
C32_CloseIsFinal ==
  [][closeCount >= 1 => (~running' /\ (pc = "idle" => pc' \in {"idle", "done"}))]_vars

C34_ErrorLeavesStoreUnchanged ==
  [][(Len(posts') = Len(posts) + 1
        /\ posts'[Len(posts')] \in {"400", "404", "500-lookup", "500-publish"})
      => nextOrderId' = nextOrderId]_vars

\* C35: every order creation answered with 201 has published the
\* notification of its order id, whenever the request arrives relative
\* to the initialization of the transport (stated for the starts whose
\* initialization has not failed; C15 is about the failed ones).
C35_CreatedMeansPublished ==
  boot # "rejected" =>
    \A i \in 1..Len(posts) :
      posts[i] \in {"201", "201-unpublished"}
        => LET m == Cardinality({j \in 1..i : posts[j] \in Created})
           IN pubSend[m] = "ok" /\ pubResult[m] = "resolved"

\* C36: after SIGTERM the notification service eventually shuts the
\* telemetry SDK down and exits, also when quitting the Redis client
\* fails or the connection was never established.
C36_ShutdownTerminates ==
  (shutdown # "none") ~> (shutdown = "exited")
====
